---- MODULE Spec2Model ----
(***************************************************************************)
(* Subprocess command execution and git orchestration of cli/src/utils.rs: *)
(* CommandUtils (exec, get_stdout_lossy) for std::process::Command and the *)
(* Git handle with its operations.  Text is modelled as sequences of       *)
(* one-character strings so that trimming, line splitting, prefix tests    *)
(* and substring searches are computed, not assumed.                       *)
(***************************************************************************)
EXTENDS Integers, Sequences, FiniteSets, TLC

VARIABLES base, git, pc, op, inp, commands, child, result, terminal

vars == <<base, git, pc, op, inp, commands, child, result, terminal>>

(***************************************************************************)
(* Bounds of the model.                                                    *)
(***************************************************************************)
\* longest stdout / stderr a child of a directly executed Command writes
MaxOut == 2
MaxErr == 2
\* longest argument vector of a directly executed Command
MaxArgs == 2
\* longest stdout / stderr a git child writes
MaxGitOut == 2
MaxGitErr == 1
\* longest stdout of `git submodule status`
MaxStatusOut == 3
\* longest list of paths a caller passes
MaxPaths == 1

(***************************************************************************)
(* String literals of the source, as character sequences.                  *)
(***************************************************************************)
\* the character U+0060, which a TLA+ string cannot hold
Backtick == "<backtick>"

S_git ==
    <<"g", "i", "t">>

S_exited ==
    <<" ", "e", "x", "i", "t", "e", "d", " ", "w", "i", "t", "h", " ", "c", "o", "d", "e",
      " ">>

S_signal ==
    <<" ", "t", "e", "r", "m", "i", "n", "a", "t", "e", "d", " ", "b", "y", " ", "a", " ",
      "s", "i", "g", "n", "a", "l">>

S_colon ==
    <<":", " ">>

A_clone ==
    <<"c", "l", "o", "n", "e">>

A_recurse_submodules ==
    <<"-", "-", "r", "e", "c", "u", "r", "s", "e", "-", "s", "u", "b", "m", "o", "d", "u",
      "l", "e", "s">>

A_depth1 ==
    <<"-", "-", "d", "e", "p", "t", "h", "=", "1">>

A_shallow_submodules ==
    <<"-", "-", "s", "h", "a", "l", "l", "o", "w", "-", "s", "u", "b", "m", "o", "d", "u",
      "l", "e", "s">>

A_checkout ==
    <<"c", "h", "e", "c", "k", "o", "u", "t">>

A_init ==
    <<"i", "n", "i", "t">>

A_add ==
    <<"a", "d", "d">>

A_rm ==
    <<"r", "m">>

A_force ==
    <<"-", "-", "f", "o", "r", "c", "e">>

A_commit ==
    <<"c", "o", "m", "m", "i", "t">>

A_m ==
    <<"-", "m">>

A_no_gpg_sign ==
    <<"-", "-", "n", "o", "-", "g", "p", "g", "-", "s", "i", "g", "n">>

A_rev_parse ==
    <<"r", "e", "v", "-", "p", "a", "r", "s", "e">>

A_is_inside_work_tree ==
    <<"-", "-", "i", "s", "-", "i", "n", "s", "i", "d", "e", "-", "w", "o", "r", "k", "-",
      "t", "r", "e", "e">>

A_show_toplevel ==
    <<"-", "-", "s", "h", "o", "w", "-", "t", "o", "p", "l", "e", "v", "e", "l">>

A_status ==
    <<"s", "t", "a", "t", "u", "s">>

A_porcelain ==
    <<"-", "-", "p", "o", "r", "c", "e", "l", "a", "i", "n">>

A_branch ==
    <<"b", "r", "a", "n", "c", "h">>

A_list ==
    <<"-", "-", "l", "i", "s", "t">>

A_no_color ==
    <<"-", "-", "n", "o", "-", "c", "o", "l", "o", "r">>

A_short ==
    <<"-", "-", "s", "h", "o", "r", "t">>

A_HEAD ==
    <<"H", "E", "A", "D">>

A_tag ==
    <<"t", "a", "g">>

A_submodule ==
    <<"s", "u", "b", "m", "o", "d", "u", "l", "e">>

A_update ==
    <<"u", "p", "d", "a", "t", "e">>

A_progress ==
    <<"-", "-", "p", "r", "o", "g", "r", "e", "s", "s">>

A_dashinit ==
    <<"-", "-", "i", "n", "i", "t">>

A_recursive ==
    <<"-", "-", "r", "e", "c", "u", "r", "s", "i", "v", "e">>

A_remote ==
    <<"-", "-", "r", "e", "m", "o", "t", "e">>

NothingToCommit ==
    <<"n", "o", "t", "h", "i", "n", "g", " ", "t", "o", " ", "c", "o", "m", "m", "i", "t",
      ",", " ", "w", "o", "r", "k", "i", "n", "g", " ", "t", "r", "e", "e", " ", "c", "l",
      "e", "a", "n">>

S_failed_commit ==
    <<"f", "a", "i", "l", "e", "d", " ", "t", "o", " ", "c", "o", "m", "m", "i", "t", " ",
      "(", "c", "o", "d", "e", "=">>

S_stdout_eq ==
    <<",", " ", "s", "t", "d", "o", "u", "t", "=">>

S_stderr_eq ==
    <<",", " ", "s", "t", "d", "e", "r", "r", "=">>

S_close ==
    <<")">>

S_Some ==
    <<"S", "o", "m", "e", "(">>

S_None ==
    <<"N", "o", "n", "e">>

GuidanceMsg ==
    <<"T", "h", "e", " ", "t", "a", "r", "g", "e", "t", " ", "d", "i", "r", "e", "c", "t",
      "o", "r", "y", " ", "i", "s", " ", "a", " ", "p", "a", "r", "t", " ", "o", "f", " ",
      "o", "r", " ", "o", "n", " ", "i", "t", "s", " ", "o", "w", "n", " ", "a", "n", " ",
      "a", "l", "r", "e", "a", "d", "y", " ", "i", "n", "i", "t", "i", "a", "l", "i", "z",
      "e", "d", " ", "g", "i", "t", " ", "r", "e", "p", "o", "s", "i", "t", "o", "r", "y",
      ",", "\n", "a", "n", "d", " ", "i", "t", " ", "r", "e", "q", "u", "i", "r", "e", "s",
      " ", "c", "l", "e", "a", "n", " ", "w", "o", "r", "k", "i", "n", "g", " ", "a", "n",
      "d", " ", "s", "t", "a", "g", "i", "n", "g", " ", "a", "r", "e", "a", "s", ",", " ",
      "i", "n", "c", "l", "u", "d", "i", "n", "g", " ", "n", "o", " ", "u", "n", "t", "r",
      "a", "c", "k", "e", "d", " ", "f", "i", "l", "e", "s", ".", "\n", "\n", "C", "h",
      "e", "c", "k", " ", "t", "h", "e", " ", "c", "u", "r", "r", "e", "n", "t", " ", "g",
      "i", "t", " ", "r", "e", "p", "o", "s", "i", "t", "o", "r", "y", "'", "s", " ", "s",
      "t", "a", "t", "u", "s", " ", "w", "i", "t", "h", " ", Backtick, "g", "i", "t", " ",
      "s", "t", "a", "t", "u", "s", Backtick, ".", "\n", "T", "h", "e", "n", ",", " ", "y",
      "o", "u", " ", "c", "a", "n", " ", "t", "r", "a", "c", "k", " ", "f", "i", "l", "e",
      "s", " ", "w", "i", "t", "h", " ", Backtick, "g", "i", "t", " ", "a", "d", "d", " ",
      ".", ".", ".", Backtick, " ", "a", "n", "d", " ", "t", "h", "e", "n", " ", "c", "o",
      "m", "m", "i", "t", " ", "t", "h", "e", "m", " ", "w", "i", "t", "h", " ", Backtick,
      "g", "i", "t", " ", "c", "o", "m", "m", "i", "t", Backtick, ",", "\n", "i", "g", "n",
      "o", "r", "e", " ", "t", "h", "e", "m", " ", "i", "n", " ", "t", "h", "e", " ",
      Backtick, ".", "g", "i", "t", "i", "g", "n", "o", "r", "e", Backtick, " ", "f", "i",
      "l", "e", ",", " ", "o", "r", " ", "r", "u", "n", " ", "t", "h", "i", "s", " ", "c",
      "o", "m", "m", "a", "n", "d", " ", "a", "g", "a", "i", "n", " ", "w", "i", "t", "h",
      " ", "t", "h", "e", " ", Backtick, "-", "-", "n", "o", "-", "c", "o", "m", "m", "i",
      "t", Backtick, " ", "f", "l", "a", "g", ".", "\n", "\n", "I", "f", " ", "n", "o",
      "n", "e", " ", "o", "f", " ", "t", "h", "e", " ", "p", "r", "e", "v", "i", "o", "u",
      "s", " ", "s", "t", "e", "p", "s", " ", "w", "o", "r", "k", "e", "d", ",", " ", "p",
      "l", "e", "a", "s", "e", " ", "o", "p", "e", "n", " ", "a", "n", " ", "i", "s", "s",
      "u", "e", " ", "a", "t", ":", "\n", "h", "t", "t", "p", "s", ":", "/", "/", "g", "i",
      "t", "h", "u", "b", ".", "c", "o", "m", "/", "f", "o", "u", "n", "d", "r", "y", "-",
      "r", "s", "/", "f", "o", "u", "n", "d", "r", "y", "/", "i", "s", "s", "u", "e", "s",
      "/", "n", "e", "w", "/", "c", "h", "o", "o", "s", "e">>

P_git_status ==
    <<"g", "i", "t", " ", "s", "t", "a", "t", "u", "s">>

P_git_add ==
    <<"g", "i", "t", " ", "a", "d", "d">>

P_git_commit ==
    <<"g", "i", "t", " ", "c", "o", "m", "m", "i", "t">>

P_gitignore ==
    <<".", "g", "i", "t", "i", "g", "n", "o", "r", "e">>

P_no_commit ==
    <<"-", "-", "n", "o", "-", "c", "o", "m", "m", "i", "t">>

(***************************************************************************)
(* Text primitives of the Rust standard library used by the source.        *)
(***************************************************************************)
\* Option::None of ExitStatus::code(): the child was killed by a signal
NoCode == -1

\* a byte that is not valid UTF-8, and what from_utf8_lossy puts in its place
BadByte == "xFF"
Replacement == "uFFFD"

\* all sequences over A of length at most n
Strs(A, n) == UNION {[1..k -> A] : k \in 0..n}

\* String::from_utf8_lossy
from_utf8_lossy(bytes) ==
    [i \in 1..Len(bytes) |-> IF bytes[i] = BadByte THEN Replacement ELSE bytes[i]]

\* char::is_whitespace, as used by str::trim
IsWhitespace(c) == c \in {" ", "\n", "\t", "\r"}

RECURSIVE trim_start(_)
trim_start(s) ==
    IF s = <<>> THEN s
    ELSE IF IsWhitespace(Head(s)) THEN trim_start(Tail(s)) ELSE s

RECURSIVE trim_end(_)
trim_end(s) ==
    IF s = <<>> THEN s
    ELSE IF IsWhitespace(s[Len(s)]) THEN trim_end(SubSeq(s, 1, Len(s) - 1)) ELSE s

\* str::trim
trim(s) == trim_end(trim_start(s))

\* str::starts_with(char)
starts_with(s, c) == s # <<>> /\ Head(s) = c

\* str::contains(&str)
contains(s, pat) ==
    \E i \in 1..(Len(s) - Len(pat) + 1) : SubSeq(s, i, i + Len(pat) - 1) = pat

\* position of the first line feed of s, 0 when there is none
RECURSIVE FirstNewline(_, _)
FirstNewline(s, i) ==
    IF i > Len(s) THEN 0
    ELSE IF s[i] = "\n" THEN i ELSE FirstNewline(s, i + 1)

\* a line that was terminated by "\n" loses one trailing "\r"
StripCr(l) ==
    IF l # <<>> /\ l[Len(l)] = "\r" THEN SubSeq(l, 1, Len(l) - 1) ELSE l

\* str::lines
RECURSIVE lines(_)
lines(s) ==
    IF s = <<>> THEN <<>>
    ELSE LET nl == FirstNewline(s, 1)
         IN  IF nl = 0 THEN <<s>>
             ELSE <<StripCr(SubSeq(s, 1, nl - 1))>> \o lines(SubSeq(s, nl + 1, Len(s)))

Digit(d) ==
    CASE d = 0 -> "0" [] d = 1 -> "1" [] d = 2 -> "2" [] d = 3 -> "3" [] d = 4 -> "4"
      [] d = 5 -> "5" [] d = 6 -> "6" [] d = 7 -> "7" [] d = 8 -> "8" [] d = 9 -> "9"

\* Display of a non-negative exit code
RECURSIVE to_string(_)
to_string(n) ==
    IF n < 10 THEN <<Digit(n)>> ELSE to_string(n \div 10) \o <<Digit(n % 10)>>

\* bool::then_some fed to Command::args: zero or one argument
then_some(b, a) == IF b THEN <<a>> ELSE <<>>

(***************************************************************************)
(* std::process::Command, the child process and the values returned.       *)
(***************************************************************************)
\* Command without current_dir: the child inherits the caller's directory
Inherited == "<inherited>"

\* the child could not be spawned
NoSpawn == [spawn |-> FALSE, code |-> NoCode, stdout |-> <<>>, stderr |-> <<>>]

\* what a child does: whether it spawns, its exit code, what it writes
Children(codes, outs, errs) ==
    {NoSpawn} \cup
    [spawn : {TRUE}, code : codes, stdout : outs, stderr : errs]

NoOutput == [status |-> NoCode, stdout |-> <<>>, stderr |-> <<>>]

\* the io::Error of a failed spawn, as text
S_io == <<"i", "o">>

\* Result values: Err(msg), Ok(Output), Ok(String), Ok(bool), Ok(())
Err(m) == [ok |-> FALSE, msg |-> m, output |-> NoOutput, text |-> <<>>, flag |-> FALSE]
OkOutput(o) == [ok |-> TRUE, msg |-> <<>>, output |-> o, text |-> <<>>, flag |-> FALSE]
OkText(t) == [ok |-> TRUE, msg |-> <<>>, output |-> NoOutput, text |-> t, flag |-> FALSE]
OkBool(b) == [ok |-> TRUE, msg |-> <<>>, output |-> NoOutput, text |-> <<>>, flag |-> b]
OkUnit == [ok |-> TRUE, msg |-> <<>>, output |-> NoOutput, text |-> <<>>, flag |-> FALSE]
NoResult == Err(<<>>)

\* Result::map(drop)
map_drop(r) == IF r.ok THEN OkUnit ELSE r

\* Command::arg / Command::args / Command::current_dir / Command::stderr
args(c, as) == [c EXCEPT !.args = @ \o as]
arg(c, a) == args(c, <<a>>)
current_dir(c, dir) == [c EXCEPT !.cwd = dir]
set_stderr(c, cfg) == [c EXCEPT !.stderr = cfg]

\* Command::output: a piped stream is captured, an inherited one goes to the
\* terminal and leaves the captured buffer empty
output(c, ch) ==
    [status |-> ch.code,
     stdout |-> IF c.stdout = "piped" THEN ch.stdout ELSE <<>>,
     stderr |-> IF c.stderr = "piped" THEN ch.stderr ELSE <<>>]

\* what the child's stderr shows live on the caller's terminal
Shown(c, ch) == IF ch.spawn /\ c.stderr = "inherit" THEN ch.stderr ELSE <<>>

\* slip: any exit code counts as success, only a signal as failure
success_any_code(status) == status # NoCode

\* ExitStatus::success
success(status) == status = 0

(***************************************************************************)
(* CommandUtils for Command.                                               *)
(***************************************************************************)
\* slip: stdout is preferred and stderr is the fallback
exec_msg_stdout_first(out) ==
    LET msg == trim(from_utf8_lossy(out.stdout))
    IN  IF msg = <<>> THEN trim(from_utf8_lossy(out.stderr)) ELSE msg

\* the diagnostic body: trimmed stderr, or trimmed stdout when that is empty
exec_msg(out) ==
    LET msg == trim(from_utf8_lossy(out.stderr))
    IN  IF msg = <<>> THEN trim(from_utf8_lossy(out.stdout)) ELSE msg

\* slip: the first argument that is not a flag is looked for in the whole vector
exec_name_skips_flags(c) ==
    LET nf == SelectSeq(c.args, LAMBDA a : ~starts_with(a, "-"))
    IN  IF nf # <<>> THEN c.program \o <<" ">> \o Head(nf) ELSE c.program

\* the program name, followed by the first argument unless it is a flag
exec_name(c) ==
    IF c.args # <<>> /\ ~starts_with(Head(c.args), "-")
    THEN c.program \o <<" ">> \o Head(c.args)
    ELSE c.program

\* the error message of a failed exit
exec_err(c, out) ==
    LET msg == exec_msg(out)
        name == exec_name(c)
        err == IF out.status # NoCode
               THEN name \o S_exited \o to_string(out.status)
               ELSE name \o S_signal
    IN  IF msg # <<>> THEN err \o S_colon \o msg ELSE err

exec(c, ch) ==
    IF ~ch.spawn THEN Err(S_io)
    ELSE LET out == output(c, ch)
         IN  IF success(out.status) THEN OkOutput(out) ELSE Err(exec_err(c, out))

get_stdout_lossy(c, ch) ==
    LET r == exec(c, ch)
    IN  IF r.ok THEN OkText(trim(from_utf8_lossy(r.output.stdout))) ELSE r

(***************************************************************************)
(* Git: the handle and its constructors.                                   *)
(***************************************************************************)
Roots == {"/repo", "/other"}
Root0 == "/repo"

Handles == [root : Roots, quiet : BOOLEAN, shallow : BOOLEAN]

new(r) == [root |-> r, quiet |-> FALSE, shallow |-> FALSE]

root(self, r) == [self EXCEPT !.root = r]

\* slip: the copy is rebuilt from defaults instead of from self
quiet_resets_shallow(self, q) == [self EXCEPT !.quiet = q, !.shallow = FALSE]

quiet(self, q) == [self EXCEPT !.quiet = q]

shallow(self, s) == [self EXCEPT !.shallow = s]

cmd_no_root ==
    [program |-> S_git, args |-> <<>>, cwd |-> Inherited,
     stdout |-> "piped", stderr |-> "piped"]

\* slip: the handle's root is not applied
cmd_forgets_root(self) == cmd_no_root

cmd(self) == current_dir(cmd_no_root, self.root)

\* slip: stderr is captured whatever quiet says
stderr_always_piped(self) == "piped"

stderr(self) == IF self.quiet THEN "piped" ELSE "inherit"

(***************************************************************************)
(* Git operations.  X_cmd is the Command operation X builds; X is the      *)
(* Command it ran together with the value it returns, for a given child.   *)
(***************************************************************************)
Ran(c, r) == [cmds |-> <<c>>, result |-> r]

root_of_cmd(relative_to) ==
    args(current_dir(cmd_no_root, relative_to), <<A_rev_parse, A_show_toplevel>>)

\* PathBuf::from(output) keeps the text
root_of(relative_to, ch) ==
    Ran(root_of_cmd(relative_to), get_stdout_lossy(root_of_cmd(relative_to), ch))

clone_cmd(sh, from, to) ==
    args(arg(args(args(args(set_stderr(cmd_no_root, "inherit"),
                            <<A_clone, A_recurse_submodules>>),
                       then_some(sh, A_depth1)),
                  then_some(sh, A_shallow_submodules)),
             from),
         to)

clone(sh, from, to, ch) ==
    Ran(clone_cmd(sh, from, to), map_drop(exec(clone_cmd(sh, from, to), ch)))

checkout_cmd(self, recursive, tag_) ==
    arg(args(arg(cmd(self), A_checkout), then_some(recursive, A_recurse_submodules)), tag_)

checkout(self, recursive, tag_, ch) ==
    Ran(checkout_cmd(self, recursive, tag_),
        map_drop(exec(checkout_cmd(self, recursive, tag_), ch)))

init_cmd(self) == arg(cmd(self), A_init)

init(self, ch) == Ran(init_cmd(self), map_drop(exec(init_cmd(self), ch)))

add_cmd(self, paths) == args(arg(cmd(self), A_add), paths)

add(self, paths, ch) == Ran(add_cmd(self, paths), map_drop(exec(add_cmd(self, paths), ch)))

rm_cmd(self, force, paths) ==
    args(args(arg(cmd(self), A_rm), then_some(force, A_force)), paths)

rm(self, force, paths, ch) ==
    Ran(rm_cmd(self, force, paths), map_drop(exec(rm_cmd(self, force, paths), ch)))

\* Debug of Option<i32>
DebugCode(status) ==
    IF status = NoCode THEN S_None ELSE S_Some \o to_string(status) \o S_close

\* char::escape_debug of the characters that occur
EscapeDebug(c) ==
    CASE c = "\n" -> <<"\\", "n">>
      [] c = "\t" -> <<"\\", "t">>
      [] c = "\r" -> <<"\\", "r">>
      [] c = "\"" -> <<"\\", "\"">>
      [] c = "\\" -> <<"\\", "\\">>
      [] OTHER -> <<c>>

RECURSIVE EscapeAll(_)
EscapeAll(s) == IF s = <<>> THEN <<>> ELSE EscapeDebug(Head(s)) \o EscapeAll(Tail(s))

\* Debug of &str
DebugStr(s) == <<"\"">> \o EscapeAll(s) \o <<"\"">>

\* debug is cfg!(any(test, debug_assertions)) of the build
commit_cmd(self, msg, debug) ==
    args(args(cmd(self), <<A_commit, A_m, msg>>), then_some(debug, A_no_gpg_sign))

commit_err(out) ==
    S_failed_commit \o DebugCode(out.status)
        \o S_stdout_eq \o DebugStr(trim(from_utf8_lossy(out.stdout)))
        \o S_stderr_eq \o DebugStr(trim(from_utf8_lossy(out.stderr))) \o S_close

\* slip: only stdout is searched
commit_forgiven_stdout_only(out) ==
    contains(from_utf8_lossy(out.stdout), NothingToCommit)

\* "nothing to commit" in either stream forgives a failed exit
commit_forgiven(out) ==
    \/ contains(from_utf8_lossy(out.stdout), NothingToCommit)
    \/ contains(from_utf8_lossy(out.stderr), NothingToCommit)

commit(self, msg, debug, ch) ==
    Ran(commit_cmd(self, msg, debug),
        IF ~ch.spawn THEN Err(S_io)
        ELSE LET out == output(commit_cmd(self, msg, debug), ch)
             IN  IF ~success(out.status) /\ ~commit_forgiven(out)
                 THEN Err(commit_err(out))
                 ELSE OkUnit)

is_in_repo_cmd(self) == args(cmd(self), <<A_rev_parse, A_is_inside_work_tree>>)

\* Command::status: only the exit status is looked at
is_in_repo(self, ch) ==
    Ran(is_in_repo_cmd(self),
        IF ~ch.spawn THEN Err(S_io) ELSE OkBool(success(ch.code)))

is_clean_cmd(self) == args(cmd(self), <<A_status, A_porcelain>>)

\* slip: the output is trimmed before the emptiness test
is_clean_map_trimmed(r) ==
    IF r.ok THEN OkBool(trim(from_utf8_lossy(r.output.stdout)) = <<>>) ELSE r

\* Result::map(|out| out.stdout.is_empty()) on the raw bytes
is_clean_map(r) == IF r.ok THEN OkBool(r.output.stdout = <<>>) ELSE r

is_clean(self, ch) == Ran(is_clean_cmd(self), is_clean_map(exec(is_clean_cmd(self), ch)))

has_branch_cmd(self, branch) ==
    arg(args(cmd(self), <<A_branch, A_list, A_no_color>>), branch)

has_branch(self, branch, ch) ==
    LET r == get_stdout_lossy(has_branch_cmd(self, branch), ch)
    IN  Ran(has_branch_cmd(self, branch), IF r.ok THEN OkBool(r.text # <<>>) ELSE r)

ensure_clean(self, ch) ==
    LET c == is_clean(self, ch)
    IN  [cmds |-> c.cmds,
         result |-> IF ~c.result.ok THEN c.result
                    ELSE IF c.result.flag THEN OkUnit ELSE Err(GuidanceMsg)]

commit_hash_cmd(self, short) ==
    arg(args(arg(cmd(self), A_rev_parse), then_some(short, A_short)), A_HEAD)

commit_hash(self, short, ch) ==
    Ran(commit_hash_cmd(self, short), get_stdout_lossy(commit_hash_cmd(self, short), ch))

tag_cmd(self) == arg(cmd(self), A_tag)

tag(self, ch) == Ran(tag_cmd(self), get_stdout_lossy(tag_cmd(self), ch))

has_missing_dependencies_cmd(self, paths) ==
    args(args(cmd(self), <<A_submodule, A_status>>), paths)

\* slip: only the first line is looked at
any_line_missing_first_only(stdout) == starts_with(stdout, "-")

\* stdout.lines().any(|line| line.starts_with('-'))
any_line_missing(stdout) ==
    LET ls == lines(stdout) IN \E i \in 1..Len(ls) : starts_with(ls[i], "-")

has_missing_dependencies(self, paths, ch) ==
    LET r == get_stdout_lossy(has_missing_dependencies_cmd(self, paths), ch)
    IN  Ran(has_missing_dependencies_cmd(self, paths),
            IF r.ok THEN OkBool(any_line_missing(r.text)) ELSE r)

submodule_add_cmd(self, force, url, path) ==
    arg(arg(args(args(args(set_stderr(cmd(self), stderr(self)),
                           <<A_submodule, A_add>>),
                      then_some(self.shallow, A_depth1)),
                 then_some(force, A_force)),
            url),
        path)

submodule_add(self, force, url, path, ch) ==
    Ran(submodule_add_cmd(self, force, url, path),
        map_drop(exec(submodule_add_cmd(self, force, url, path), ch)))

\* slip: --depth=1 follows force instead of the handle's shallow flag
submodule_update_cmd_depth_on_force(self, force, remote, paths) ==
    args(args(args(args(args(set_stderr(cmd(self), stderr(self)),
                             <<A_submodule, A_update, A_progress, A_dashinit, A_recursive>>),
                        then_some(force, A_depth1)),
                   then_some(force, A_force)),
              then_some(remote, A_remote)),
         paths)

submodule_update_cmd(self, force, remote, paths) ==
    args(args(args(args(args(set_stderr(cmd(self), stderr(self)),
                             <<A_submodule, A_update, A_progress, A_dashinit, A_recursive>>),
                        then_some(self.shallow, A_depth1)),
                   then_some(force, A_force)),
              then_some(remote, A_remote)),
         paths)

submodule_update(self, force, remote, paths, ch) ==
    Ran(submodule_update_cmd(self, force, remote, paths),
        map_drop(exec(submodule_update_cmd(self, force, remote, paths), ch)))

(***************************************************************************)
(* Inputs of the model.                                                    *)
(***************************************************************************)
\* bytes a git child writes, bytes `git submodule status` writes, and bytes
\* any child writes
Bytes == {" ", "-", "+"}
LineBytes == {" ", "\n", "-", "+"}
RunnerBytes == {" ", "\n", "+", BadByte}

\* exit codes (NoCode: killed by a signal)
Codes == {0, 1, 128, NoCode}
GitCodes == {0, 1, NoCode}

\* arguments of a directly executed Command: a flag and a word
ArgWords == {<<"-", "C">>, <<"s", "t">>}

RunnerChildren ==
    Children(Codes, Strs(RunnerBytes, MaxOut), Strs(RunnerBytes, MaxErr))

GitChildren == Children(GitCodes, Strs(Bytes, MaxGitOut), Strs(Bytes, MaxGitErr))

StatusChildren == Children(GitCodes, Strs(LineBytes, MaxStatusOut), {<<>>, <<"-">>})

\* git commit also writes its "nothing to commit" notice, alone, within
\* other text, or cut short
CommitTexts ==
    {<<>>, <<"+">>, NothingToCommit, <<"+", "\n">> \o NothingToCommit \o <<"\n">>,
     <<BadByte>> \o NothingToCommit,
     SubSeq(NothingToCommit, 1, Len(NothingToCommit) - 1)}

CommitChildren == Children(GitCodes, CommitTexts, CommitTexts)

\* values a caller passes
Url == <<"u">>
Ref == <<"r">>
Dest == <<"d">>
Message == <<"m">>
Branch == <<"b">>
PathLists == Strs({<<"p">>}, MaxPaths)
OptDest == {<<>>, <<Dest>>}

Inp0 ==
    [self |-> new(Root0), dir |-> Inherited, value |-> FALSE,
     shallow |-> FALSE, recursive |-> FALSE, force |-> FALSE, remote |-> FALSE,
     short |-> FALSE, debug |-> FALSE, to |-> <<>>, paths |-> <<>>,
     program |-> <<>>, args |-> <<>>, stderr |-> "piped"]

(***************************************************************************)
(* The state machine: a caller derives handles and makes one call at a     *)
(* time; each call runs to completion and its outcome is then dropped.     *)
(***************************************************************************)
Init ==
    /\ base = new(Root0)
    /\ git = new(Root0)
    /\ pc = "idle"
    /\ op = "none"
    /\ inp = Inp0
    /\ commands = <<>>
    /\ child = NoSpawn
    /\ result = NoResult
    /\ terminal = <<>>

\* a call o with inputs i ran the commands of ran against child ch
Called(o, i, ran, ch) ==
    /\ pc' = "done"
    /\ op' = o
    /\ inp' = i
    /\ commands' = ran.cmds
    /\ child' = ch
    /\ result' = ran.result
    /\ terminal' = Shown(ran.cmds[1], ch)
    /\ UNCHANGED <<base, git>>

\* a setter o with inputs i returned handle h
Derived(o, i, h) ==
    /\ pc' = "done"
    /\ op' = o
    /\ inp' = i
    /\ git' = h
    /\ UNCHANGED <<base, commands, child, result, terminal>>

Return ==
    /\ pc = "done"
    /\ pc' = "idle"
    /\ op' = "none"
    /\ inp' = Inp0
    /\ commands' = <<>>
    /\ child' = NoSpawn
    /\ result' = NoResult
    /\ terminal' = <<>>
    /\ UNCHANGED <<base, git>>

DoExec ==
    /\ pc = "idle"
    /\ \E as \in Strs(ArgWords, MaxArgs), cfg \in {"piped", "inherit"}, ch \in RunnerChildren :
           LET c == set_stderr(args(cmd_no_root, as), cfg)
           IN  Called("exec", [Inp0 EXCEPT !.program = c.program, !.args = as, !.stderr = cfg],
                      Ran(c, exec(c, ch)), ch)

DoGetStdoutLossy ==
    /\ pc = "idle"
    /\ \E as \in Strs(ArgWords, MaxArgs), cfg \in {"piped", "inherit"}, ch \in RunnerChildren :
           LET c == set_stderr(args(cmd_no_root, as), cfg)
           IN  Called("get_stdout_lossy",
                      [Inp0 EXCEPT !.program = c.program, !.args = as, !.stderr = cfg],
                      Ran(c, get_stdout_lossy(c, ch)), ch)

DoRoot ==
    /\ pc = "idle"
    /\ \E self \in {base, git}, r \in Roots :
           Derived("root", [Inp0 EXCEPT !.self = self, !.dir = r], root(self, r))

DoQuiet ==
    /\ pc = "idle"
    /\ \E self \in {base, git}, q \in BOOLEAN :
           Derived("quiet", [Inp0 EXCEPT !.self = self, !.value = q], quiet(self, q))

DoShallow ==
    /\ pc = "idle"
    /\ \E self \in {base, git}, s \in BOOLEAN :
           Derived("shallow", [Inp0 EXCEPT !.self = self, !.value = s], shallow(self, s))

DoRootOf ==
    /\ pc = "idle"
    /\ \E dir \in Roots, ch \in GitChildren :
           Called("root_of", [Inp0 EXCEPT !.dir = dir], root_of(dir, ch), ch)

DoClone ==
    /\ pc = "idle"
    /\ \E sh \in BOOLEAN, to \in OptDest, ch \in GitChildren :
           Called("clone", [Inp0 EXCEPT !.shallow = sh, !.to = to], clone(sh, Url, to, ch), ch)

DoCheckout ==
    /\ pc = "idle"
    /\ \E self \in {git}, recursive \in BOOLEAN, ch \in GitChildren :
           Called("checkout", [Inp0 EXCEPT !.self = self, !.recursive = recursive],
                  checkout(self, recursive, Ref, ch), ch)

DoInit ==
    /\ pc = "idle"
    /\ \E self \in {git}, ch \in GitChildren :
           Called("init", [Inp0 EXCEPT !.self = self], init(self, ch), ch)

DoAdd ==
    /\ pc = "idle"
    /\ \E self \in {git}, paths \in PathLists, ch \in GitChildren :
           Called("add", [Inp0 EXCEPT !.self = self, !.paths = paths], add(self, paths, ch), ch)

DoRm ==
    /\ pc = "idle"
    /\ \E self \in {git}, force \in BOOLEAN, paths \in PathLists, ch \in GitChildren :
           Called("rm", [Inp0 EXCEPT !.self = self, !.force = force, !.paths = paths],
                  rm(self, force, paths, ch), ch)

DoCommit ==
    /\ pc = "idle"
    /\ \E self \in {git}, debug \in BOOLEAN, ch \in CommitChildren :
           Called("commit", [Inp0 EXCEPT !.self = self, !.debug = debug],
                  commit(self, Message, debug, ch), ch)

DoIsInRepo ==
    /\ pc = "idle"
    /\ \E self \in {git}, ch \in GitChildren :
           Called("is_in_repo", [Inp0 EXCEPT !.self = self], is_in_repo(self, ch), ch)

DoIsClean ==
    /\ pc = "idle"
    /\ \E self \in {git}, ch \in GitChildren :
           Called("is_clean", [Inp0 EXCEPT !.self = self], is_clean(self, ch), ch)

DoHasBranch ==
    /\ pc = "idle"
    /\ \E self \in {git}, ch \in GitChildren :
           Called("has_branch", [Inp0 EXCEPT !.self = self], has_branch(self, Branch, ch), ch)

DoEnsureClean ==
    /\ pc = "idle"
    /\ \E self \in {git}, ch \in GitChildren :
           Called("ensure_clean", [Inp0 EXCEPT !.self = self], ensure_clean(self, ch), ch)

DoCommitHash ==
    /\ pc = "idle"
    /\ \E self \in {git}, short \in BOOLEAN, ch \in GitChildren :
           Called("commit_hash", [Inp0 EXCEPT !.self = self, !.short = short],
                  commit_hash(self, short, ch), ch)

DoTag ==
    /\ pc = "idle"
    /\ \E self \in {git}, ch \in GitChildren :
           Called("tag", [Inp0 EXCEPT !.self = self], tag(self, ch), ch)

DoHasMissingDependencies ==
    /\ pc = "idle"
    /\ \E self \in {git}, paths \in PathLists, ch \in StatusChildren :
           Called("has_missing_dependencies", [Inp0 EXCEPT !.self = self, !.paths = paths],
                  has_missing_dependencies(self, paths, ch), ch)

DoSubmoduleAdd ==
    /\ pc = "idle"
    /\ \E self \in {git}, force \in BOOLEAN, ch \in GitChildren :
           Called("submodule_add", [Inp0 EXCEPT !.self = self, !.force = force],
                  submodule_add(self, force, Url, Dest, ch), ch)

DoSubmoduleUpdate ==
    /\ pc = "idle"
    /\ \E self \in {git}, force \in BOOLEAN, remote \in BOOLEAN,
          paths \in PathLists, ch \in GitChildren :
           Called("submodule_update",
                  [Inp0 EXCEPT !.self = self, !.force = force, !.remote = remote,
                               !.paths = paths],
                  submodule_update(self, force, remote, paths, ch), ch)

\* the Git layer
Next ==
    \/ DoRoot \/ DoQuiet \/ DoShallow
    \/ DoRootOf \/ DoClone \/ DoCheckout \/ DoInit \/ DoAdd \/ DoRm \/ DoCommit
    \/ DoIsInRepo \/ DoIsClean \/ DoHasBranch \/ DoEnsureClean \/ DoCommitHash
    \/ DoTag \/ DoHasMissingDependencies \/ DoSubmoduleAdd \/ DoSubmoduleUpdate
    \/ Return

Spec == Init /\ [][Next]_vars

\* CommandUtils on a Command of the caller's own
NextRunner == DoExec \/ DoGetStdoutLossy \/ Return

SpecRunner == Init /\ [][NextRunner]_vars

(***************************************************************************)
(* Properties.                                                             *)
(***************************************************************************)
EndsWith(s, suf) ==
    Len(suf) <= Len(s) /\ SubSeq(s, Len(s) - Len(suf) + 1, Len(s)) = suf

BeginsWith(s, pre) == Len(pre) <= Len(s) /\ SubSeq(s, 1, Len(pre)) = pre

\* the text that reports how the child ended
StatusText(code) == IF code = NoCode THEN S_signal ELSE S_exited \o to_string(code)

\* a call of o whose child was spawned and did not exit with code 0
Failed(o) == pc = "done" /\ op = o /\ child.spawn /\ child.code # 0

\* s without its leading and trailing whitespace, by positions
Inner(s) ==
    LET ix == {i \in 1..Len(s) : ~IsWhitespace(s[i])}
    IN  IF ix = {} THEN <<>>
        ELSE SubSeq(s, CHOOSE i \in ix : \A j \in ix : i <= j,
                       CHOOSE i \in ix : \A j \in ix : j <= i)

\* the streams Command::output hands back for the call in progress
CapturedOut == from_utf8_lossy(child.stdout)
CapturedErr == IF commands[1].stderr = "piped" THEN from_utf8_lossy(child.stderr) ELSE <<>>

\* C1: exec returns Ok(output) exactly when the spawned child exits with
\* code 0; a non-zero code c gives an error naming the program and
\* "exited with code c", a signal gives an error naming the program and
\* "terminated by a signal".
C1_ExecClassifiesExit ==
    (pc = "done" /\ op = "exec" /\ child.spawn) =>
        /\ result.ok <=> child.code = 0
        /\ result.ok => /\ result.output.status = 0
                        /\ result.output.stdout = child.stdout
        /\ child.code \notin {0, NoCode} =>
               /\ contains(result.msg, inp.program)
               /\ contains(result.msg, <<"e", "x", "i", "t", "e", "d", " ", "w", "i", "t", "h",
                                         " ", "c", "o", "d", "e", " ">> \o to_string(child.code))
        /\ child.code = NoCode =>
               /\ contains(result.msg, inp.program)
               /\ contains(result.msg, <<"t", "e", "r", "m", "i", "n", "a", "t", "e", "d", " ",
                                         "b", "y", " ", "a", " ", "s", "i", "g", "n", "a", "l">>)

C1_Witness ==
    /\ Failed("exec")
    /\ child.code = 128
    /\ ~result.ok
    /\ contains(result.msg, <<"c", "o", "d", "e", " ", "1", "2", "8">>)

\* C2: commit returns Ok(()) on exit code 0 whatever the output, Ok(()) on a
\* failed exit whose stdout or stderr contains "nothing to commit, working
\* tree clean", and an error on every other failed exit.
C2_CommitForgivesNothingToCommit ==
    (pc = "done" /\ op = "commit" /\ child.spawn) =>
        LET benign == \/ contains(child.stdout, NothingToCommit)
                      \/ contains(child.stderr, NothingToCommit)
        IN  /\ child.code = 0 => result.ok
            /\ (child.code # 0 /\ benign) => result.ok
            /\ (child.code # 0 /\ ~benign) => ~result.ok

C2_Witness ==
    /\ Failed("commit")
    /\ contains(child.stderr, NothingToCommit)
    /\ ~contains(child.stdout, NothingToCommit)
    /\ result.ok

HandleOps ==
    {"checkout", "init", "add", "rm", "commit", "is_in_repo", "is_clean", "has_branch",
     "ensure_clean", "commit_hash", "tag", "has_missing_dependencies", "submodule_add",
     "submodule_update"}

\* C3 as claimed: every child runs in an explicitly set working directory,
\* the handle's root for handle operations, and none - root_of and clone
\* included - in the directory inherited from the caller.
C3_NoInheritedDirectory ==
    (pc = "done" /\ child.spawn) =>
        \A i \in 1..Len(commands) :
            /\ commands[i].cwd # Inherited
            /\ op \in HandleOps => commands[i].cwd = inp.self.root

\* C3 amended: every child of a handle operation runs in the receiver's
\* root, also after root(...) replaced it; the child of root_of runs in the
\* relative_to argument; the child of clone gets no working directory and
\* inherits the caller's.
C3_DirectoryPerOperation ==
    (pc = "done" /\ child.spawn) =>
        \A i \in 1..Len(commands) :
            /\ op \in HandleOps => commands[i].cwd = inp.self.root
            /\ op = "root_of" => commands[i].cwd = inp.dir
            /\ op = "clone" => commands[i].cwd = Inherited

C3_Witness ==
    /\ pc = "done" /\ op = "checkout" /\ child.spawn
    /\ inp.self.root = "/other" /\ base.root = "/repo"
    /\ commands[1].cwd = "/other"

\* the submodule call in progress, made again on handle h with the same child
SubmoduleAgain(h) ==
    IF op = "submodule_add"
    THEN submodule_add(h, inp.force, Url, Dest, child)
    ELSE submodule_update(h, inp.force, inp.remote, inp.paths, child)

\* C4 as claimed: for the same child behaviour a failed submodule_add or
\* submodule_update returns the same error text with quiet set and unset.
C4_QuietKeepsDiagnostic ==
    (Failed("submodule_add") \/ Failed("submodule_update")) =>
        SubmoduleAgain(quiet(inp.self, TRUE)).result.msg
            = SubmoduleAgain(quiet(inp.self, FALSE)).result.msg

\* C4 amended: quiet decides whether stderr is captured at all.  With quiet
\* set nothing is shown live and the error body of a failed submodule_add or
\* submodule_update is the trimmed stderr (the trimmed stdout when that is
\* blank); with quiet unset stderr is shown live, is not captured, and the
\* body is the trimmed stdout alone, absent when that is blank.
C4_QuietDecidesCapture ==
    (Failed("submodule_add") \/ Failed("submodule_update")) =>
        LET e == Inner(from_utf8_lossy(child.stderr))
            o == Inner(from_utf8_lossy(child.stdout))
            body == IF inp.self.quiet /\ e # <<>> THEN e ELSE o
        IN  /\ terminal = IF inp.self.quiet THEN <<>> ELSE child.stderr
            /\ ~result.ok
            /\ result.msg = S_git \o <<" ">> \o A_submodule \o StatusText(child.code)
                              \o IF body = <<>> THEN <<>> ELSE S_colon \o body

C4_Witness ==
    /\ Failed("submodule_add")
    /\ ~inp.self.quiet
    /\ child.stderr = <<"-">>
    /\ child.stdout = <<"+">>
    /\ terminal = <<"-">>
    /\ EndsWith(result.msg, <<":", " ", "+">>)

\* C5: the body of exec's error is the trimmed stderr when that is not
\* empty, else the trimmed stdout; when both are empty the message ends with
\* the exit-code or signal text, without ": " and without body.
C5_DiagnosticBody ==
    Failed("exec") =>
        LET e == Inner(CapturedErr)
            o == Inner(CapturedOut)
            body == IF e # <<>> THEN e ELSE o
        IN  /\ ~result.ok
            /\ body # <<>> => EndsWith(result.msg, StatusText(child.code) \o S_colon \o body)
            /\ body = <<>> => EndsWith(result.msg, StatusText(child.code))

C5_Witness ==
    /\ Failed("exec")
    /\ commands[1].stderr = "piped"
    /\ child.stderr = <<" ", "\n">>
    /\ child.stdout = <<"+", " ">>
    /\ EndsWith(result.msg, <<":", " ", "+">>)

\* the first argument of as that is not a flag, as a list of zero or one
FirstNonFlag(as) ==
    LET ix == {i \in 1..Len(as) : ~starts_with(as[i], "-")}
    IN  IF ix = {} THEN <<>> ELSE <<as[CHOOSE i \in ix : \A j \in ix : i <= j]>>

\* the message of a failed exec starts with the program name, then sub
\* (zero or one argument), then the exit text
NamedWith(sub) ==
    BeginsWith(result.msg,
               inp.program \o (IF sub = <<>> THEN <<>> ELSE <<" ">> \o sub[1])
                   \o StatusText(child.code))

\* C6 as claimed: in exec's error the program name is followed by the first
\* argument, in order, that does not start with '-', and by nothing when
\* there is none.
C6_FirstNonFlagArgument == Failed("exec") => NamedWith(FirstNonFlag(inp.args))

\* C6 amended: in exec's error the program name is followed by the first
\* argument of the vector when that argument does not start with '-', and by
\* nothing when the first argument is a flag or the vector is empty; later
\* arguments are never looked at.
C6_FirstArgumentUnlessFlag ==
    Failed("exec") =>
        NamedWith(IF inp.args # <<>> /\ inp.args[1][1] # "-" THEN <<inp.args[1]>> ELSE <<>>)

C6_Witness ==
    /\ Failed("exec")
    /\ inp.args = <<<<"-", "C">>, <<"s", "t">>>>
    /\ child.code = 1
    /\ BeginsWith(result.msg, <<"g", "i", "t", " ", "e", "x", "i", "t", "e", "d">>)

Opt(b, flags) == IF b THEN flags ELSE <<>>

\* C7: clone, submodule_update, submodule_add and checkout pass exactly
\* their catalogue vector: each optional flag is there exactly when its
\* condition holds, in catalogue order, the caller's values last.
C7_CatalogueArguments ==
    (pc = "done" /\ commands # <<>>) =>
        LET as == commands[1].args
        IN  /\ op = "clone" =>
                   as = <<A_clone, A_recurse_submodules>>
                          \o Opt(inp.shallow, <<A_depth1, A_shallow_submodules>>)
                          \o <<Url>> \o inp.to
            /\ op = "submodule_update" =>
                   as = <<A_submodule, A_update, A_progress, A_dashinit, A_recursive>>
                          \o Opt(inp.self.shallow, <<A_depth1>>)
                          \o Opt(inp.force, <<A_force>>)
                          \o Opt(inp.remote, <<A_remote>>)
                          \o inp.paths
            /\ op = "submodule_add" =>
                   as = <<A_submodule, A_add>>
                          \o Opt(inp.self.shallow, <<A_depth1>>)
                          \o Opt(inp.force, <<A_force>>)
                          \o <<Url, Dest>>
            /\ op = "checkout" =>
                   as = <<A_checkout>> \o Opt(inp.recursive, <<A_recurse_submodules>>)
                          \o <<Ref>>

C7_Witness ==
    /\ pc = "done" /\ op = "submodule_update"
    /\ ~inp.self.shallow /\ inp.force /\ ~inp.remote /\ inp.paths # <<>>
    /\ Len(commands[1].args) = 7

\* C8: ensure_clean returns Ok(()) exactly when `git status --porcelain`
\* exits 0 with empty stdout; exit 0 with any stdout gives the guidance
\* message; a failed status gives exec's failure unchanged; the status call
\* is the only process.
C8_EnsureClean ==
    (pc = "done" /\ op = "ensure_clean") =>
        /\ Len(commands) = 1
        /\ commands[1].program = S_git
        /\ commands[1].args = <<A_status, A_porcelain>>
        /\ result.ok <=> (child.spawn /\ child.code = 0 /\ child.stdout = <<>>)
        /\ (child.spawn /\ child.code = 0 /\ child.stdout # <<>>) =>
               /\ result.msg = GuidanceMsg
               /\ \A p \in {P_git_status, P_git_add, P_git_commit, P_gitignore, P_no_commit} :
                      contains(result.msg, p)
               /\ ~contains(result.msg, S_exited)
               /\ ~contains(result.msg, S_signal)
        /\ (child.spawn /\ child.code # 0) =>
               /\ result.msg # GuidanceMsg
               /\ result.msg = S_git \o <<" ">> \o A_status \o StatusText(child.code)
                                 \o (LET e == Inner(child.stderr)
                                         o == Inner(child.stdout)
                                     IN  IF e # <<>> THEN S_colon \o e
                                         ELSE IF o # <<>> THEN S_colon \o o ELSE <<>>)

C8_Witness ==
    /\ pc = "done" /\ op = "ensure_clean"
    /\ child.spawn /\ child.code = 0 /\ child.stdout = <<" ">>
    /\ result.msg = GuidanceMsg

\* C9: when `git submodule status` exits 0, has_missing_dependencies is true
\* exactly when a line of the stdout, taken after trimming the whole output,
\* begins with '-'; it is false when every such line begins with another
\* character and false for empty output.
C9_MissingDependencies ==
    (pc = "done" /\ op = "has_missing_dependencies" /\ child.spawn /\ child.code = 0) =>
        LET t == Inner(child.stdout)
        IN  /\ result.ok
            /\ result.flag <=> \E i \in 1..Len(t) : t[i] = "-" /\ (i = 1 \/ t[i - 1] = "\n")

C9_Witness ==
    /\ pc = "done" /\ op = "has_missing_dependencies"
    /\ child.spawn /\ child.code = 0
    /\ child.stdout = <<"+", "\n", "-">>
    /\ result.flag

\* C10: root(r), quiet(q) and shallow(s) return a handle with the named
\* field replaced and the other two fields of the receiver; the base handle
\* made by Git::new keeps its root, quiet = false and shallow = false
\* through every sequence of setter calls.
C10_SettersCopy ==
    /\ base.root = Root0 /\ base.quiet = FALSE /\ base.shallow = FALSE
    /\ (pc = "done" /\ op = "root") =>
           /\ git.root = inp.dir
           /\ git.quiet = inp.self.quiet /\ git.shallow = inp.self.shallow
    /\ (pc = "done" /\ op = "quiet") =>
           /\ git.quiet = inp.value
           /\ git.root = inp.self.root /\ git.shallow = inp.self.shallow
    /\ (pc = "done" /\ op = "shallow") =>
           /\ git.shallow = inp.value
           /\ git.root = inp.self.root /\ git.quiet = inp.self.quiet

C10_Witness ==
    /\ pc = "done" /\ op = "quiet"
    /\ inp.self = [root |-> "/other", quiet |-> FALSE, shallow |-> TRUE]
    /\ inp.value
    /\ git = [root |-> "/other", quiet |-> TRUE, shallow |-> TRUE]
    /\ base = [root |-> "/repo", quiet |-> FALSE, shallow |-> FALSE]

====
